---- MODULE Spec2Model ----
(***************************************************************************)
(* A model of the merkle package (src/cmd/merkle/main.go): Node, Level,    *)
(* Tree, Branch and Proof, the operations Construct, ComputeProof and      *)
(* VerifyProof, and the pointer walk of hashing.                           *)
(*                                                                         *)
(* Bytes.  A []byte is a sequence of atoms.  An atom is either one raw     *)
(* byte (Raw(b)) or one whole digest; a digest is hash.Sum over the bytes  *)
(* written since the last Reset and is kept as the term Hash(written), so  *)
(* the hash is collision-free and its output has a constant length (one    *)
(* atom).  The nil slice is NilBytes, the empty non-nil slice is <<>>.     *)
(*                                                                         *)
(* Pointers.  A *Node is an index into the tree's heap (the sequence of    *)
(* the Nodes allocated so far, in allocation order); the nil pointer is 0. *)
(***************************************************************************)
EXTENDS Integers, Sequences, FiniteSets, TLC

VARIABLES
    levels,     \* levels[t]: t.levels, a sequence of Levels (sequences of *Node)
    heap,       \* heap[t]: the Nodes reachable from tree t
    input,      \* input[t]: the vals of the Construct call that built t, <<>> before
    proof,      \* the *Proof the caller holds (fields br and h, plus its history)
    ret,        \* what the last call returned
    crashed,    \* TRUE once a call has panicked
    walk,       \* the hashing loop: its locals n, nd, the heap it writes, its position
    writes      \* writes[id]: how many times the walk has assigned Node id's h

vars == <<levels, heap, input, proof, ret, crashed, walk, writes>>

----------------------------------------------------------------------------
(* Bounds *)

MaxCount == 8       \* the longest run of values given to Construct
MaxPerm == 3        \* the values up to this many are given in every order too
MaxUses == 2        \* how many times one Proof object is given to VerifyProof
MaxPair == 3        \* the longest run given to Construct where two Trees are built
PairUses == 1       \* MaxUses where two Trees are built

----------------------------------------------------------------------------
(* Bytes and the hash *)

Raw(b) == [k |-> 0, b |-> b, s |-> <<>>]

NilBytes == <<[k |-> 2, b |-> 0, s |-> <<>>]>>

Bytes(x) == IF x = NilBytes THEN <<>> ELSE x

\* bytes.Equal gone wrong: the lengths compared, not the bytes
BytesEqualLengths(a, b) == Len(Bytes(a)) = Len(Bytes(b))

\* bytes.Equal: nil and empty are equal
BytesEqual(a, b) == Bytes(a) = Bytes(b)

\* append(a, b...)
Append2(a, b) == Bytes(a) \o Bytes(b)

\* hash.Reset(); hash.Write(x); hash.Sum(nil)
Hash(x) == <<[k |-> 1, b |-> 0, s |-> Bytes(x)]>>

\* the byte slice of an input value: one byte
Val(v) == <<Raw(v)>>

----------------------------------------------------------------------------
(* Node *)

NewNode(h) == [h |-> h, parent |-> 0, left |-> 0, right |-> 0]

IsLeaf(nd) == nd.right = 0 /\ nd.left = 0

----------------------------------------------------------------------------
(* hashing: one iteration of the for loop per step *)

\* w is the loop's state: n and nd (the locals), heap (the Nodes), pc ("loop"
\* while the loop runs, then "return", "error" or "panic"), h (the digest
\* returned) and wrote (the Node whose h this iteration assigned, else 0).
hashingStart(hp, nd) ==
    [n |-> nd, nd |-> nd, heap |-> hp, pc |-> "loop", h |-> NilBytes, wrote |-> 0]

\* h = n.left.h, then append(h, n.right.h...) when there is a right child
childrenBytes(hp, n) ==
    IF hp[n].right # 0 THEN Append2(hp[hp[n].left].h, hp[hp[n].right].h)
    ELSE hp[hp[n].left].h

\* hashing gone wrong: the Node hashed as soon as its left child has a digest,
\* without the descent into a right child that has none
hashingStepEager(w) ==
    LET hp == w.heap
        n == w.n
        quiet == [w EXCEPT !.wrote = 0]
    IN  IF n = 0 THEN [quiet EXCEPT !.pc = "panic"]
        ELSE IF hp[n].h # NilBytes THEN
            IF n = w.nd THEN [quiet EXCEPT !.pc = "return", !.h = hp[n].h]
            ELSE [quiet EXCEPT !.n = hp[n].parent]
        ELSE IF IsLeaf(hp[n]) THEN [quiet EXCEPT !.pc = "error"]
        ELSE IF hp[n].left = 0 THEN [quiet EXCEPT !.pc = "panic"]
        ELSE IF hp[hp[n].left].h = NilBytes THEN [quiet EXCEPT !.n = hp[n].left]
        ELSE LET d == Hash(childrenBytes(hp, n))
                 hp2 == [hp EXCEPT ![n].h = d]
             IN  IF n = w.nd
                 THEN [w EXCEPT !.heap = hp2, !.wrote = n, !.pc = "return", !.h = d]
                 ELSE [w EXCEPT !.heap = hp2, !.wrote = n, !.n = hp[n].parent]

hashingStep(w) ==
    LET hp == w.heap
        n == w.n
        quiet == [w EXCEPT !.wrote = 0]
    IN  IF n = 0 THEN [quiet EXCEPT !.pc = "panic"]
        ELSE IF hp[n].h # NilBytes THEN
            IF n = w.nd THEN [quiet EXCEPT !.pc = "return", !.h = hp[n].h]
            ELSE [quiet EXCEPT !.n = hp[n].parent]
        ELSE IF IsLeaf(hp[n]) THEN [quiet EXCEPT !.pc = "error"]
        ELSE IF hp[n].left = 0 THEN [quiet EXCEPT !.pc = "panic"]
        ELSE IF hp[hp[n].left].h = NilBytes THEN [quiet EXCEPT !.n = hp[n].left]
        ELSE IF hp[n].right # 0 /\ hp[hp[n].right].h = NilBytes
            THEN [quiet EXCEPT !.n = hp[n].right]
        ELSE LET d == Hash(childrenBytes(hp, n))
                 hp2 == [hp EXCEPT ![n].h = d]
             IN  IF n = w.nd
                 THEN [w EXCEPT !.heap = hp2, !.wrote = n, !.pc = "return", !.h = d]
                 ELSE [w EXCEPT !.heap = hp2, !.wrote = n, !.n = hp[n].parent]

RECURSIVE hashingRun(_)
hashingRun(w) == IF w.pc # "loop" THEN w ELSE hashingRun(hashingStep(w))

\* hashing(nd, hash), run to its return
hashing(hp, nd) == hashingRun(hashingStart(hp, nd))

----------------------------------------------------------------------------
(* Height *)

\* i & j
RECURSIVE BitAnd(_, _)
BitAnd(i, j) ==
    IF i = 0 \/ j = 0 THEN 0
    ELSE (i % 2) * (j % 2) + 2 * BitAnd(i \div 2, j \div 2)

PowOf2(i) == i # 0 /\ BitAnd(i, i - 1) = 0

\* the for loop of Log2: l counts the shifts of j that leave it non-zero
RECURSIVE shifts(_, _)
shifts(j, l) == IF j \div 2 = 0 THEN l ELSE shifts(j \div 2, l + 1)

\* Log2 gone wrong: no rounding up when i is not a power of 2
Log2Floor(i) == shifts(i, 0)

Log2(i) == IF PowOf2(i) THEN shifts(i, 0) ELSE shifts(i, 0) + 1

calcTreeHeight(count) ==
    IF count = 0 THEN 0
    ELSE IF count = 1 THEN 2
    ELSE Log2(count) + 1

----------------------------------------------------------------------------
(* Tree *)

Height(lv) == Len(lv)

Empty(lv) == Height(lv) = 0

\* t.level(height): the Level, or the error, or the panic of an index out of range
level(lv, height) ==
    LET h == height - 1
    IN  IF h < 0 \/ h > Height(lv) THEN [err |-> "Height out of range", lv |-> <<>>]
        ELSE IF h >= Len(lv) THEN [err |-> "panic", lv |-> <<>>]
        ELSE [err |-> "", lv |-> lv[h + 1]]

\* constructLevel(children): the parents, allocated after the Nodes of hp, and
\* hp with the children's parent set
levelSize(n) == (n + (n % 2)) \div 2

\* constructLevel gone wrong: the right child never linked
constructLevelLeftOnly(hp, children) ==
    LET size == levelSize(Len(children))
        base == Len(hp)
        parent(i) ==
            [h |-> NilBytes, parent |-> 0, left |-> children[2 * i + 1], right |-> 0]
    IN  [parents |-> [i \in 1..size |-> base + i],
         heap |-> [id \in 1..(base + size) |->
                     IF id > base THEN parent(id - base - 1)
                     ELSE IF \E j \in 1..Len(children) : children[j] = id /\ j % 2 = 1
                         THEN [hp[id] EXCEPT !.parent =
                                  base + (((CHOOSE j \in 1..Len(children) :
                                              children[j] = id) - 1) \div 2) + 1]
                         ELSE hp[id]]]

constructLevel(hp, children) ==
    LET size == levelSize(Len(children))
        base == Len(hp)
        parent(i) ==
            [h |-> NilBytes, parent |-> 0,
             left |-> children[2 * i + 1],
             right |-> IF 2 * i + 1 < Len(children) THEN children[2 * i + 2] ELSE 0]
        pos(id) == CHOOSE j \in 1..Len(children) : children[j] = id
    IN  [parents |-> [i \in 1..size |-> base + i],
         heap |-> [id \in 1..(base + size) |->
                     IF id > base THEN parent(id - base - 1)
                     ELSE IF \E j \in 1..Len(children) : children[j] = id
                         THEN [hp[id] EXCEPT !.parent = base + ((pos(id) - 1) \div 2) + 1]
                         ELSE hp[id]]]

\* the loop "for height > 0" of Construct; height counts from 0 here as there
RECURSIVE constructLevels(_, _, _)
constructLevels(lv, hp, height) ==
    IF height > 0
    THEN LET c == constructLevel(hp, lv[height + 1])
         IN  constructLevels([lv EXCEPT ![height] = c.parents], c.heap, height - 1)
    ELSE [levels |-> lv, heap |-> hp]

\* Construct up to the call of setHashes: the levels, the leaves and the links
constructLinks(vals) ==
    LET count == Len(vals)
        height == calcTreeHeight(count)
        leaves == [i \in 1..count |-> i]
        hp == [i \in 1..count |-> NewNode(Hash(Val(vals[i])))]
        lv == [l \in 1..height |-> IF l = height THEN leaves ELSE <<>>]
    IN  constructLevels(lv, hp, height - 1)

\* t.root(): 0 stands for the panic of an index out of range
root(lv) == IF Len(lv) = 0 THEN 0 ELSE IF Len(lv[1]) = 0 THEN 0 ELSE lv[1][1]

\* Construct gone wrong: no check that the tree is empty, so a second call
\* builds the tree again over the Nodes of the first
ConstructAgain(lv, hp, vals) ==
    IF Len(vals) = 0 THEN [err |-> "No vals", h |-> NilBytes, levels |-> lv, heap |-> hp]
    ELSE LET c == constructLinks(vals)
             w == hashing(c.heap, root(c.levels))
         IN  [err |-> "", h |-> w.h, levels |-> c.levels, heap |-> w.heap]

\* t.Construct(vals): the error, the digest returned, and the tree afterwards
Construct(lv, hp, vals) ==
    IF ~Empty(lv) THEN [err |-> "Tree is not empty", h |-> NilBytes, levels |-> lv, heap |-> hp]
    ELSE IF Len(vals) = 0 THEN [err |-> "No vals", h |-> NilBytes, levels |-> lv, heap |-> hp]
    ELSE LET c == constructLinks(vals)
             w == hashing(c.heap, root(c.levels))
         IN  IF w.pc = "return"
             THEN [err |-> "", h |-> w.h, levels |-> c.levels, heap |-> w.heap]
             ELSE IF w.pc = "error"
             THEN [err |-> "Leaf node does not have value", h |-> NilBytes,
                   levels |-> c.levels, heap |-> w.heap]
             ELSE [err |-> "panic", h |-> NilBytes, levels |-> c.levels, heap |-> w.heap]

----------------------------------------------------------------------------
(* Proof *)

\* i ^ 1
Xor1(i) == IF i % 2 = 0 THEN i + 1 ELSE i - 1

\* the value of i after "for i, _ = range leaves { if bytes.Equal(...) { break } }":
\* the first index whose digest equals h, else the last index the range assigned
\* (0 when the level is empty); indices count from 0
RECURSIVE rangeLeaves(_, _, _, _)
rangeLeaves(hp, leaves, h, i) ==
    IF Len(leaves) = 0 THEN 0
    ELSE IF BytesEqual(hp[leaves[i + 1]].h, h) THEN i
    ELSE IF i + 1 = Len(leaves) THEN i
    ELSE rangeLeaves(hp, leaves, h, i + 1)

\* the branch entry gone wrong: the two tags the other way round
branchEntryFlipped(hp, lvl, i) ==
    IF Xor1(i) % 2 = 0 THEN Append2(<<Raw(1)>>, hp[lvl[Xor1(i) + 1]].h)
    ELSE Append2(<<Raw(0)>>, hp[lvl[Xor1(i) + 1]].h)

\* append([]byte{0}, level[i^1].h...) when i^1 is even, append([]byte{1}, ...) when odd
branchEntry(hp, lvl, i) ==
    IF Xor1(i) % 2 = 0 THEN Append2(<<Raw(0)>>, hp[lvl[Xor1(i) + 1]].h)
    ELSE Append2(<<Raw(1)>>, hp[lvl[Xor1(i) + 1]].h)

\* the second loop of ComputeProof, from the position i of the level at `height`
RECURSIVE climb(_, _, _, _, _)
climb(lv, hp, i, height, br) ==
    LET i2 == i \div 2
        l == level(lv, height - 1)
    IN  IF l.err # "" THEN [err |-> l.err, br |-> <<>>]
        ELSE IF Len(l.lv) = 1 THEN [err |-> "", br |-> br]
        ELSE IF Xor1(i2) >= Len(l.lv) THEN [err |-> "panic", br |-> <<>>]
        ELSE climb(lv, hp, i2, height - 1, Append(br, branchEntry(hp, l.lv, i2)))

\* t.ComputeProof(val): the error ("panic" for an index out of range) or the Proof
ComputeProof(lv, hp, val) ==
    LET h == Hash(val)
        height == Height(lv)
        l == level(lv, height)
        i == rangeLeaves(hp, l.lv, h, 0)
        none == [err |-> "", br |-> <<>>, h |-> NilBytes]
    IN  IF l.err # "" THEN [none EXCEPT !.err = l.err]
        ELSE IF i = Len(l.lv) THEN [none EXCEPT !.err = "Val not found"]
        ELSE IF Xor1(i) >= Len(l.lv) THEN [none EXCEPT !.err = "panic"]
        ELSE LET c == climb(lv, hp, i, height, <<branchEntry(hp, l.lv, i)>>)
             IN  IF c.err # "" THEN [none EXCEPT !.err = c.err]
                 ELSE [err |-> "", br |-> c.br, h |-> h]

\* one iteration of the loop of VerifyProof over the entry e, from the working
\* digest ph: the new p.h, or the panic of e[0] on an empty non-nil entry
verifyStep(e, ph) ==
    IF e # NilBytes /\ Len(e) = 0 THEN [panic |-> TRUE, h |-> ph]
    ELSE IF e # NilBytes /\ e[1] = Raw(0)
        THEN [panic |-> FALSE, h |-> Hash(Append2(Tail(e), ph))]
    ELSE IF e # NilBytes /\ e[1] = Raw(1)
        THEN [panic |-> FALSE, h |-> Hash(Append2(ph, Tail(e)))]
    ELSE [panic |-> FALSE, h |-> Hash(ph)]

RECURSIVE verifyLoop(_, _, _)
verifyLoop(br, k, ph) ==
    IF k > Len(br) THEN [panic |-> FALSE, h |-> ph]
    ELSE LET r == verifyStep(br[k], ph)
         IN  IF r.panic THEN r ELSE verifyLoop(br, k + 1, r.h)

\* VerifyProof over a copy of p.h: the Proof's own working digest left alone
VerifyProofOnCopy(lv, hp, br, ph) ==
    LET r == verifyLoop(br, 1, ph)
    IN  IF r.panic THEN [panic |-> TRUE, match |-> FALSE, h |-> ph]
        ELSE IF root(lv) = 0 THEN [panic |-> TRUE, match |-> FALSE, h |-> ph]
        ELSE [panic |-> FALSE, match |-> BytesEqual(hp[root(lv)].h, r.h), h |-> ph]

\* t.VerifyProof(p): the boolean returned and p.h afterwards; panic when an
\* entry is empty or t.root() indexes an empty t.levels
VerifyProof(lv, hp, br, ph) ==
    LET r == verifyLoop(br, 1, ph)
    IN  IF r.panic THEN [panic |-> TRUE, match |-> FALSE, h |-> r.h]
        ELSE IF root(lv) = 0 THEN [panic |-> TRUE, match |-> FALSE, h |-> r.h]
        ELSE [panic |-> FALSE, match |-> BytesEqual(hp[root(lv)].h, r.h), h |-> r.h]

----------------------------------------------------------------------------
(* The program: Trees, each with its own hash, and one caller *)

Trees == {"t", "u"}

\* the value sequences given to Construct: the runs 1..n, every order of the
\* shortest runs, and one sequence with a repeated value
Run(n) == [i \in 1..n |-> i]

Perms(n) == {s \in [1..n -> 1..n] : \A i, j \in 1..n : s[i] = s[j] => i = j}

Inputs ==
    {Run(n) : n \in 0..MaxCount} \cup UNION {Perms(n) : n \in 1..MaxPerm} \cup {<<1, 1>>}

PairInputs == {Run(n) : n \in 0..MaxPair} \cup {<<2, 1>>}

\* the values given to ComputeProof on the tree lv: as many as it has leaves,
\* and one more, which no run holds
Values(lv) == 1..(IF Len(lv) = 0 THEN 1 ELSE Len(lv[Len(lv)]) + 1)

\* a digest of no tree
Foreign == Hash(Val(0))

\* Proofs built by hand with NewProof: an empty branch, a nil entry, an empty
\* entry, an entry whose tag is neither 0 nor 1, a nil working digest
HandMade ==
    { [br |-> <<>>, h |-> Hash(Val(1))],
      [br |-> <<NilBytes>>, h |-> Hash(Val(1))],
      [br |-> << <<>> >>, h |-> Hash(Val(1))],
      [br |-> << <<Raw(1)>> \o Hash(Val(2)), <<>> >>, h |-> Hash(Val(1))],
      [br |-> << <<Raw(2)>> \o Hash(Val(2)) >>, h |-> Hash(Val(1))],
      [br |-> <<>>, h |-> NilBytes] }

\* The Proof the caller holds.  br and h are the fields of the Proof; the rest
\* records where it came from: made ("ComputeProof", "NewProof", or "tampered"
\* for a copy of a computed Proof with one sibling digest replaced), src and
\* val (the tree and value it was computed for), at (the entry replaced) and
\* log (the tree and result of each VerifyProof call made on it so far).
NoProof ==
    [held |-> FALSE, br |-> <<>>, h |-> NilBytes, made |-> "", src |-> "", val |-> 0,
     at |-> 0, log |-> <<>>]

NoRet == [op |-> "", t |-> "", val |-> 0, err |-> "", h |-> NilBytes, match |-> FALSE]

Idle == [n |-> 0, nd |-> 0, heap |-> <<>>, pc |-> "idle", h |-> NilBytes, wrote |-> 0]

Init ==
    /\ levels = [t \in Trees |-> <<>>]
    /\ heap = [t \in Trees |-> <<>>]
    /\ input = [t \in Trees |-> <<>>]
    /\ proof = NoProof
    /\ ret = NoRet
    /\ crashed = FALSE
    /\ walk = Idle
    /\ writes = <<>>

DoConstruct(t, vals) ==
    LET r == Construct(levels[t], heap[t], vals)
    IN  /\ ~crashed
        /\ levels' = [levels EXCEPT ![t] = r.levels]
        /\ heap' = [heap EXCEPT ![t] = r.heap]
        /\ input' = IF r.err = "" THEN [input EXCEPT ![t] = vals] ELSE input
        /\ ret' = [NoRet EXCEPT !.op = "Construct", !.t = t, !.err = r.err, !.h = r.h]
        /\ crashed' = (r.err = "panic")
        /\ UNCHANGED <<proof, walk, writes>>

DoComputeProof(t, v) ==
    LET r == ComputeProof(levels[t], heap[t], Val(v))
    IN  /\ ~crashed
        /\ ret' = [NoRet EXCEPT !.op = "ComputeProof", !.t = t, !.val = v, !.err = r.err]
        /\ proof' = IF r.err = ""
                    THEN [NoProof EXCEPT !.held = TRUE, !.br = r.br, !.h = r.h,
                                         !.made = "ComputeProof", !.src = t, !.val = v]
                    ELSE NoProof
        /\ crashed' = (r.err = "panic")
        /\ UNCHANGED <<levels, heap, input, walk, writes>>

DoNewProof(p) ==
    /\ ~crashed
    /\ proof' = [NoProof EXCEPT !.held = TRUE, !.br = p.br, !.h = p.h, !.made = "NewProof"]
    /\ ret' = [NoRet EXCEPT !.op = "NewProof"]
    /\ UNCHANGED <<levels, heap, input, crashed, walk, writes>>

\* the digests put in place of a sibling digest: one of no tree, the Proof's
\* own leaf digest, and the root digest of the tree the Proof was computed on
Forged(p) ==
    {Foreign, p.h} \cup (IF p.src \in Trees /\ root(levels[p.src]) # 0
                    THEN {heap[p.src][root(levels[p.src])].h} ELSE {})

\* NewProof over a copy of the branch of a Proof just computed, the sibling
\* digest of entry k replaced by the different digest d
Tamper(k, d) ==
    /\ ~crashed
    /\ proof.held /\ proof.made = "ComputeProof" /\ proof.log = <<>>
    /\ k \in 1..Len(proof.br)
    /\ d # Tail(proof.br[k])
    /\ proof' = [proof EXCEPT !.br[k] = <<proof.br[k][1]>> \o d, !.made = "tampered",
                              !.at = k]
    /\ ret' = [NoRet EXCEPT !.op = "NewProof"]
    /\ UNCHANGED <<levels, heap, input, crashed, walk, writes>>

DoVerifyProof(t, uses) ==
    LET r == VerifyProof(levels[t], heap[t], proof.br, proof.h)
    IN  /\ ~crashed
        /\ proof.held
        /\ Len(proof.log) < uses
        /\ proof' = [proof EXCEPT !.h = r.h,
                                  !.log = Append(@, [t |-> t, ok |-> r.match])]
        /\ ret' = [NoRet EXCEPT !.op = "VerifyProof", !.t = t, !.match = r.match,
                                !.err = IF r.panic THEN "panic" ELSE ""]
        /\ crashed' = r.panic
        /\ UNCHANGED <<levels, heap, input, walk, writes>>

\* one Tree
Next ==
    \/ \E vals \in Inputs : DoConstruct("t", vals)
    \/ \E v \in Values(levels["t"]) : DoComputeProof("t", v)
    \/ \E p \in HandMade : DoNewProof(p)
    \/ \E k \in 1..Len(proof.br) : \E d \in Forged(proof) : Tamper(k, d)
    \/ DoVerifyProof("t", MaxUses)

Spec == Init /\ [][Next]_vars

\* two Trees
NextPair ==
    \/ \E t \in Trees : \E vals \in PairInputs : DoConstruct(t, vals)
    \/ \E t \in Trees : \E v \in Values(levels[t]) : DoComputeProof(t, v)
    \/ \E k \in 1..Len(proof.br) : \E d \in Forged(proof) : Tamper(k, d)
    \/ \E t \in Trees : DoVerifyProof(t, PairUses)

SpecPair == Init /\ [][NextPair]_vars

----------------------------------------------------------------------------
(* The walk of hashing alone, over a tree as Construct links it, from any Node *)

InitHashing ==
    \E vals \in Inputs \ {<<>>} :
        LET c == constructLinks(vals)
        IN  /\ levels = [t \in Trees |-> IF t = "t" THEN c.levels ELSE <<>>]
            /\ heap = [t \in Trees |-> IF t = "t" THEN c.heap ELSE <<>>]
            /\ input = [t \in Trees |-> IF t = "t" THEN vals ELSE <<>>]
            /\ \E nd \in 1..Len(c.heap) : walk = hashingStart(c.heap, nd)
            /\ writes = [id \in 1..Len(c.heap) |-> 0]
            /\ proof = NoProof
            /\ ret = NoRet
            /\ crashed = FALSE

Iterate ==
    /\ walk.pc = "loop"
    /\ walk' = hashingStep(walk)
    /\ writes' = IF walk'.wrote # 0 THEN [writes EXCEPT ![walk'.wrote] = @ + 1] ELSE writes
    /\ UNCHANGED <<levels, heap, input, proof, ret, crashed>>

NextHashing == Iterate

SpecHashing == InitHashing /\ [][NextHashing]_vars /\ WF_vars(Iterate)

----------------------------------------------------------------------------
(* What the claims are stated with *)

Range(s) == {s[i] : i \in 1..Len(s)}

Distinct(s) == \A i, j \in 1..Len(s) : s[i] = s[j] => i = j

Built(t) == input[t] # <<>>

RootDigest(t) == heap[t][levels[t][1][1]].h

\* the least k with 2^k >= n
CeilLog2(n) == CHOOSE k \in 0..n : 2^k >= n /\ (k = 0 \/ 2^(k - 1) < n)

IsPowerOfTwo(n) == \E k \in 1..n : 2^k = n

\* a Proof that ComputeProof returned for a value of the tree it was computed
\* on, not yet given to VerifyProof
FreshFor(t) ==
    /\ proof.held /\ proof.made = "ComputeProof" /\ proof.src = t /\ proof.log = <<>>
    /\ Built(t) /\ proof.val \in Range(input[t])

\* the state after the first VerifyProof call, on tree t, on a Proof that
\* ComputeProof returned for a value of the tree src
VerifiedOnce(src, t) ==
    /\ ret.op = "VerifyProof" /\ ret.t = t
    /\ proof.made = "ComputeProof" /\ proof.src = src /\ Len(proof.log) = 1
    /\ Built(src) /\ proof.val \in Range(input[src])

----------------------------------------------------------------------------
(* C1: round-trip inclusion.  After Construct over any non-empty sequence of
   distinct values, ComputeProof(v) succeeds for every v of the sequence and
   VerifyProof on the fresh Proof returns true. *)
C1_RoundTrip ==
    \A t \in Trees :
        /\ (/\ ret.op = "ComputeProof" /\ ret.t = t
            /\ Built(t) /\ Distinct(input[t]) /\ ret.val \in Range(input[t]))
           => (ret.err = "" /\ proof.held)
        /\ (VerifiedOnce(t, t) /\ Distinct(input[t])) => ret.match

----------------------------------------------------------------------------
(* C2: negative inclusion.  On a constructed Tree, ComputeProof of a value
   whose digest matches no leaf digest fails with "Val not found" and returns
   no Proof. *)
C2_NotFound ==
    (ret.op = "ComputeProof" /\ Built(ret.t) /\ ret.val \notin Range(input[ret.t]))
        => (ret.err = "Val not found" /\ ~proof.held)

----------------------------------------------------------------------------
(* C3: Construct is build-once.  A Construct call with no values on an empty
   tree fails with "No vals"; any Construct call on a non-empty tree fails with
   "Tree is not empty"; a failing call leaves the levels, every Node and the
   height as they were; a call succeeds only on an empty tree and leaves it
   non-empty, so the root digest never changes after the first success. *)
C3_BuildOnce ==
    [][(ret'.op = "Construct") =>
          LET t == ret'.t
          IN  /\ (~Empty(levels[t])) => ret'.err = "Tree is not empty"
              /\ (Empty(levels[t]) /\ DoConstruct(t, <<>>)) => ret'.err = "No vals"
              /\ (ret'.err # "") =>
                    (levels' = levels /\ heap' = heap /\ ret'.h = NilBytes)
              /\ (ret'.err = "") =>
                    (/\ Empty(levels[t]) /\ ~Empty(levels'[t])
                     /\ ret'.h = heap'[t][levels'[t][1][1]].h)
              /\ (~Empty(levels[t])) =>
                    heap'[t][levels'[t][1][1]].h = heap[t][levels[t][1][1]].h]_vars

C3_Witness ==
    ret.op = "Construct" /\ ret.err = "Tree is not empty" /\ Built(ret.t)

----------------------------------------------------------------------------
(* C4: tamper detection.  Take a Proof that ComputeProof returned for a value
   of a tree with root digest R.  With the sibling digest of one entry replaced
   by a different digest, VerifyProof on that tree returns false; and the
   untampered Proof given to VerifyProof on a tree whose root digest is not R
   returns false. *)
C4_TamperDetected ==
    /\ (/\ ret.op = "VerifyProof" /\ proof.made = "tampered" /\ Len(proof.log) = 1
        /\ ret.t = proof.src /\ proof.val \in Range(input[proof.src]))
       => ~ret.match
    /\ \A src, t \in Trees :
          (VerifiedOnce(src, t) /\ Built(t) /\ RootDigest(t) # RootDigest(src))
             => ~ret.match

C4_Witness ==
    /\ ret.op = "VerifyProof" /\ proof.made = "tampered" /\ Len(proof.log) = 1
    /\ ret.t = proof.src /\ proof.val \in Range(input[proof.src])
    /\ proof.at = Len(proof.br) /\ Len(proof.br) > 1
    /\ Built("u") /\ RootDigest("u") # RootDigest(proof.src)

----------------------------------------------------------------------------
(* C5: the height formula.  Height() is 0 for a Tree never constructed
   successfully, 2 after Construct over one value and ceil(log2(count)) + 1
   after Construct over count >= 2 values. *)
C5_HeightFormula ==
    \A t \in Trees :
        LET count == Len(input[t])
        IN  /\ (count = 0) => Height(levels[t]) = 0
            /\ (count = 1) => Height(levels[t]) = 2
            /\ (count >= 2) => Height(levels[t]) = CeilLog2(count) + 1

C5_Witness == Len(input["t"]) = 5 /\ Height(levels["t"]) = 4

----------------------------------------------------------------------------
(* C6: VerifyProof has no error path.  On every Tree, constructed or not, and
   every Proof, VerifyProof returns a boolean, true exactly when the digest
   folded over the branch equals the root digest; it never aborts. *)
C6_NoErrorPath ==
    (ret.op = "VerifyProof") =>
        /\ ret.err = ""
        /\ ret.match <=> (Built(ret.t) /\ BytesEqual(RootDigest(ret.t), proof.h))

----------------------------------------------------------------------------
(* C7: a Proof is single-use.  When VerifyProof has returned true on a Proof
   with a non-empty branch, the next VerifyProof call on the same Proof and the
   same tree returns false. *)
C7_SingleUse ==
    \A i \in 1..(Len(proof.log) - 1) :
        (Len(proof.br) > 0 /\ proof.log[i].ok /\ proof.log[i + 1].t = proof.log[i].t)
            => ~proof.log[i + 1].ok

C7_Witness ==
    /\ Len(proof.log) = 2 /\ Len(proof.br) > 0 /\ proof.made = "ComputeProof"
    /\ proof.log[1].ok /\ proof.log[2].t = proof.log[1].t /\ ~proof.log[2].ok

----------------------------------------------------------------------------
(* C8: the round trip on 2^k values, k >= 1.  After Construct over 2^k
   distinct values, ComputeProof succeeds for every value of the sequence, its
   branch has Height() - 1 entries, none of them holds the root digest, and
   VerifyProof on the fresh Proof returns true. *)
C8_PowerOfTwo ==
    \A t \in Trees :
        (Built(t) /\ IsPowerOfTwo(Len(input[t])) /\ Distinct(input[t])) =>
            /\ (ret.op = "ComputeProof" /\ ret.t = t /\ ret.val \in Range(input[t]))
               => (/\ ret.err = ""
                   /\ FreshFor(t)
                   /\ proof.val = ret.val
                   /\ Len(proof.br) = Height(levels[t]) - 1
                   /\ \A k \in 1..Len(proof.br) : Tail(proof.br[k]) # RootDigest(t))
            /\ VerifiedOnce(t, t) => ret.match

C8_Witness ==
    /\ VerifiedOnce("t", "t") /\ ret.match
    /\ input["t"] = Run(8) /\ proof.val = 8 /\ Len(proof.br) = 3

InternalRule(hp, id) ==
    hp[id].h = IF hp[id].right # 0
               THEN Hash(hp[hp[id].left].h \o hp[hp[id].right].h)
               ELSE Hash(hp[hp[id].left].h)

\* the Nodes of the subtree of nd
RECURSIVE Below(_, _)
Below(hp, nd) ==
    IF nd = 0 THEN {} ELSE {nd} \cup Below(hp, hp[nd].left) \cup Below(hp, hp[nd].right)

C9_Returned ==
    (walk.pc = "return") =>
        /\ walk.n = walk.nd
        /\ walk.h = walk.heap[walk.nd].h
        /\ \A id \in 1..Len(walk.heap) :
              /\ IsLeaf(walk.heap[id]) => (writes[id] = 0 /\ walk.heap[id] = heap["t"][id])
              /\ (~IsLeaf(walk.heap[id]) /\ id \in Below(walk.heap, walk.nd))
                    => (writes[id] = 1 /\ InternalRule(walk.heap, id))
              /\ (id \notin Below(walk.heap, walk.nd)) => walk.heap[id] = heap["t"][id]

C9_WriteStep ==
    (walk'.wrote # 0) =>
        LET id == walk'.wrote
            nd == walk.heap[id]
        IN  /\ ~IsLeaf(nd)
            /\ nd.h = NilBytes
            /\ writes[id] = 0
            /\ walk.heap[nd.left].h # NilBytes
            /\ (nd.right # 0) => walk.heap[nd.right].h # NilBytes
            /\ \A other \in 1..Len(walk.heap) :
                  other # id => walk'.heap[other] = walk.heap[other]

----------------------------------------------------------------------------
(* C9: hash propagation.  The walk of hashing over a tree linked by Construct
   ends by returning at the Node it started from, without error; it assigns
   the digest of a Node only when the Node is internal, has no digest yet and
   all its children have one, so no Node is assigned twice and no leaf at all;
   and on return every internal Node below the start holds the hash of its left
   child's digest followed by its right child's digest, or of the left child's
   digest alone when it has no right child. *)
C9_HashPropagation ==
    /\ [](walk.pc \in {"loop", "return"})
    /\ []C9_Returned
    /\ [][C9_WriteStep]_vars
    /\ <>(walk.pc = "return")

C9_Witness ==
    /\ walk.pc = "return" /\ walk.nd = levels["t"][1][1]
    /\ Len(input["t"]) = 5
    /\ \E id \in 1..Len(walk.heap) :
          walk.heap[id].left # 0 /\ walk.heap[id].right = 0 /\ writes[id] = 1

Shape(lv, hp, vals) ==
    LET last == Len(lv)
    IN  /\ last >= 1
        /\ Len(lv[1]) = 1
        /\ Len(lv[last]) = Len(vals)
        /\ \A i \in 1..Len(vals) :
              /\ hp[lv[last][i]].h = Hash(Val(vals[i]))
              /\ IsLeaf(hp[lv[last][i]])
        /\ \A l \in 1..(last - 1) :
              LET n == Len(lv[l + 1])
              IN  /\ Len(lv[l]) = (n + 1) \div 2
                  /\ \A i \in 0..(Len(lv[l]) - 1) :
                        LET id == lv[l][i + 1]
                        IN  /\ hp[id].left = lv[l + 1][2 * i + 1]
                            /\ hp[hp[id].left].parent = id
                            /\ (2 * i + 1 >= n) <=> (hp[id].right = 0)
                            /\ (2 * i + 1 < n) =>
                                  (/\ hp[id].right = lv[l + 1][2 * i + 2]
                                   /\ hp[hp[id].right].parent = id)
        /\ hp[lv[1][1]].parent = 0
        /\ \A l1, l2 \in 1..last : \A i1 \in 1..Len(lv[l1]) : \A i2 \in 1..Len(lv[l2]) :
              lv[l1][i1] = lv[l2][i2] => (l1 = l2 /\ i1 = i2)

----------------------------------------------------------------------------
(* C10: the shape of the tree.  After a successful Construct over count
   values the last level has count leaves holding the hashes of the values in
   input order; every other level has ceil(n/2) Nodes, n being the size of the
   level below; the Node at position i has the Nodes at 2i and 2i+1 of the
   level below as its left and right child, the right child absent exactly when
   2i+1 >= n; each child's parent is that Node; and level 0 has one Node. *)
C10_TreeShape == \A t \in Trees : Built(t) => Shape(levels[t], heap[t], input[t])

C10_Witness ==
    /\ Len(input["t"]) = 7 /\ Len(levels["t"]) = 4 /\ Len(levels["t"][2]) = 2
    /\ heap["t"][levels["t"][3][4]].right = 0

====
